---- MODULE Spec2Model ----
(***************************************************************************)
(* PriceHound quote editor (frontend/src/routes/+page.svelte), the         *)
(* per-line component (lib/components/QuoteLine.svelte) and the shared     *)
(* quote page (routes/quote/[id]/+page.svelte) as state machines.          *)
(*                                                                         *)
(* Money is kept exact: prices are whole numbers, percentages are whole    *)
(* percents, and every total is held in hundredths (x100), so that         *)
(* base * percent / 100 needs no division.                                 *)
(*                                                                         *)
(* Strings that the code searches (product names, allotted_product) are    *)
(* sequences of character codes: 1..9 are lower-case letters, 11..19 the   *)
(* matching upper-case letters.  Identifiers that are only compared for    *)
(* equality are TLA+ strings.  null / undefined are the sentinels below.   *)
(***************************************************************************)
EXTENDS Integers, Sequences, FiniteSets, TLC

\* ------------------------------------------------------------------ bounds
MaxLines == 3        \* longest line list explored
MaxQty == 2          \* quantities typed by the user are 1..MaxQty
MaxItems == 2        \* longest item list of an import / calculator / quote
MaxInFlight == 2     \* most handlers suspended on the network at once
MaxVerify == 2       \* most password verifications in one page session

\* -------------------------------------------------------------- sentinels
NoId == 0                                   \* parentLineId undefined
Null == "<null>"                            \* a string | null that is null
Undef == -1                                 \* includedQuantity undefined
NoPrice == [kind |-> "null", num |-> 0]     \* a price field that is null
Flat(n) == [kind |-> "flat", num |-> n]     \* "$n"
Pct(n) == [kind |-> "pct", num |-> n]       \* "n%"
NullProduct ==
  [id |-> "", product |-> <<>>, plan |-> "", billing_unit |-> <<>>,
   billed_annually |-> NoPrice,
   billed_month_to_month |-> NoPrice, on_demand |-> NoPrice]
NoAllotment ==
  [parent_product_id |-> "", allotted_product |-> <<>>,
   allotted_product_id |-> "", quantity_per_parent |-> 0]

\* ------------------------------------------------------------ string ops
\* A string is a sequence of codes: 1..10 are lower-case letters, 11..20
\* their upper-case forms, the codes above 20 are not letters.
ToLowerChar(c) == IF c \in 11..20 THEN c - 10 ELSE c
ToLowerCase(s) == [i \in 1..Len(s) |-> ToLowerChar(s[i])]
Includes(hay, needle) ==
  \E i \in 0..(Len(hay) - Len(needle)) :
    \A j \in 1..Len(needle) : hay[i + j] = needle[j]

\* localeCompare(a, b) < 0: letters compare without case first, a prefix
\* sorts first, and on a tie lower case sorts before upper case.
RECURSIVE SeqLess(_, _)
SeqLess(a, b) ==
  IF a = <<>> THEN b # <<>>
  ELSE IF b = <<>> THEN FALSE
  ELSE IF Head(a) # Head(b) THEN Head(a) < Head(b)
  ELSE SeqLess(Tail(a), Tail(b))
LocaleLess(a, b) ==
  \/ SeqLess(ToLowerCase(a), ToLowerCase(b))
  \/ ToLowerCase(a) = ToLowerCase(b) /\ SeqLess(a, b)

\* ----------------------------------------------------- backend payloads
\* What GET /api/products answers per region (unsorted, as served).
Regions == {"us", "eu1"}
ServedProducts(region) ==
  IF region = "us" THEN
    << [id |-> "p1", product |-> <<18, 5, 7>>, plan |-> "All",
        billing_unit |-> <<21, 115>>,
        billed_annually |-> Flat(15), billed_month_to_month |-> Flat(18),
        on_demand |-> Flat(20)],
       [id |-> "p4", product |-> <<11, 6>>, plan |-> "Enterprise",
        billing_unit |-> <<22>>,
        billed_annually |-> Flat(31), billed_month_to_month |-> Flat(36),
        on_demand |-> Flat(40)],
       [id |-> "p2", product |-> <<13, 5, 4>>, plan |-> "",
        billing_unit |-> <<22>>,
        billed_annually |-> Flat(2), billed_month_to_month |-> Flat(1),
        on_demand |-> Flat(3)],
       [id |-> "p3", product |-> <<19, 8>>, plan |-> "Pro",
        billing_unit |-> <<22>>,
        billed_annually |-> Pct(10), billed_month_to_month |-> Pct(20),
        on_demand |-> NoPrice] >>
  ELSE
    << [id |-> "p1", product |-> <<18, 5, 7>>, plan |-> "All",
        billing_unit |-> <<21, 115>>,
        billed_annually |-> Flat(17), billed_month_to_month |-> Flat(20),
        on_demand |-> Flat(23)],
       [id |-> "p9", product |-> <<13, 5, 4>>, plan |-> "All",
        billing_unit |-> <<22>>,
        billed_annually |-> Flat(2), billed_month_to_month |-> Flat(3),
        on_demand |-> Flat(4)],
       [id |-> "p3", product |-> <<19, 8>>, plan |-> "Pro",
        billing_unit |-> <<22>>,
        billed_annually |-> Pct(12), billed_month_to_month |-> Pct(20),
        on_demand |-> NoPrice] >>

\* What GET /api/allotments answers.
ServedAllotments ==
  << [parent_product_id |-> "p1", allotted_product |-> <<3, 5, 4>>,
      allotted_product_id |-> "p2", quantity_per_parent |-> 2],
     [parent_product_id |-> "p1", allotted_product |-> <<3, 5, 4>>,
      allotted_product_id |-> "p2", quantity_per_parent |-> 3],
     [parent_product_id |-> "p4", allotted_product |-> <<13, 15>>,
      allotted_product_id |-> "", quantity_per_parent |-> 1],
     [parent_product_id |-> "p4", allotted_product |-> <<2, 2>>,
      allotted_product_id |-> "", quantity_per_parent |-> 4] >>

\* ---------------------------------------------------------- sequence ops
Range(s) == {s[i] : i \in 1..Len(s)}
RECURSIVE Filter(_, _)
\* s.filter(x => keep[x]) where keep is the set of kept elements' indices
Filter(s, keepIdx) ==
  IF s = <<>> THEN <<>>
  ELSE LET rest == Filter(Tail(s), {i - 1 : i \in keepIdx \ {1}})
       IN IF 1 \in keepIdx THEN <<Head(s)>> \o rest ELSE rest
\* Array.prototype.find as an index: the first index satisfying, or 0
FindIdx(idxSet) == IF idxSet = {} THEN 0
                   ELSE CHOOSE i \in idxSet : \A j \in idxSet : i <= j

\* products.sort((a, b) => a.product.localeCompare(b.product))
RECURSIVE InsertSorted(_, _)
InsertSorted(p, s) ==
  IF s = <<>> THEN <<p>>
  ELSE IF LocaleLess(p.product, Head(s).product) THEN <<p>> \o s
  ELSE <<Head(s)>> \o InsertSorted(p, Tail(s))
RECURSIVE SortProducts(_)
SortProducts(s) ==
  IF s = <<>> THEN <<>> ELSE InsertSorted(Head(s), SortProducts(Tail(s)))

VARIABLES
  \* ---- the editor, routes/+page.svelte
  lines,            \* LineItem[]
  products,         \* Product[] as loaded (sorted by name)
  metadata,         \* region of the PricingMetadata held, "" for null
  allotments,       \* Allotment[]
  selectedRegion,
  selectedPlan,     \* 'Pro' | 'Enterprise'
  loading,
  syncing,
  error,            \* '' or which message is shown
  editingQuoteId,   \* string | null
  editQuotePassword,\* string | null
  urlParam,         \* the ?edit= / ?clone= data the page was opened with, kind
                    \* "none" without; onMount reads it once (the goto('/')
                    \* that then strips it from the address is left out)
  mountPc,          \* where onMount is: "regions", "allotments", "products",
                    \* "params" (products loaded, URL not yet read), "edit"
                    \* (inside loadEditQuote's loadProducts), "done"
  pending,          \* the handlers suspended at an await on the network
  showAnnual, showMonthly, showOnDemand,
  saving, saveModalOpen, editPassword, confirmPassword, passwordError,
  requests,         \* createQuote / updateQuote calls not yet settled
  \* ---- the log estimator, lib/components/LogsIndexingCalculator.svelte
  estimator,        \* its inputs
  handed,           \* the calls of onAddToQuote made by the last step
  \* ---- the shared quote page, routes/quote/[id]/+page.svelte
  quote,            \* the Quote shown (id, is_protected)
  passwordModalOpen,
  unlockPassword,   \* that page's editPassword
  unlockError,      \* that page's passwordError
  verifying,
  isUnlocked,
  verifications,    \* verifyQuotePassword calls not yet settled
  navigation        \* the goto() that left the page shown, kind "none" before

loadVars == <<products, metadata, selectedRegion, loading, syncing, error, pending>>
editVars == <<editingQuoteId, editQuotePassword>>
viewVars == <<showAnnual, showMonthly, showOnDemand>>
saveVars == <<saving, saveModalOpen, editPassword, confirmPassword,
              passwordError, requests>>
sharedVars == <<quote, passwordModalOpen, unlockPassword, unlockError,
                verifying, isUnlocked, verifications, navigation>>
editorVars == <<lines, products, metadata, allotments, selectedRegion,
                selectedPlan, loading, syncing, error, editingQuoteId,
                editQuotePassword, urlParam, mountPc, pending, showAnnual,
                showMonthly, showOnDemand, saving, saveModalOpen, editPassword,
                confirmPassword, passwordError, requests, estimator,
                handed>>
vars == <<editorVars, sharedVars, estimator, handed>>

\* ------------------------------------------------------------ line items
Placeholder(id) ==
  [id |-> id, product |-> NullProduct, quantity |-> 1, isAllotment |-> FALSE,
   parentLineId |-> NoId, allotmentInfo |-> NoAllotment,
   includedQuantity |-> Undef]

\* crypto.randomUUID(): an id no line holds or refers to.
UsedIds(ls) == {ls[i].id : i \in 1..Len(ls)} \cup
               {ls[i].parentLineId : i \in 1..Len(ls)} \cup {NoId}
FreshId(used) == CHOOSE i \in 1..(Cardinality(used) + 1) :
                   i \notin used /\ \A j \in 1..(i - 1) : j \in used

\* $lib/utils helpers on a price field
IsPercentagePrice(f) == f.kind = "pct"
ParsePrice(f) == IF f.kind = "null" THEN 0 ELSE f.num
ParsePercentage(f) == IF f.kind = "pct" THEN f.num ELSE 0

Max(a, b) == IF a > b THEN a ELSE b
\* (line.includedQuantity || 0)
IncludedOrZero(l) == IF l.includedQuantity = Undef THEN 0 ELSE l.includedQuantity

\* $: filteredProducts
\* filteredProducts without the "|| 'All'" of a missing plan field
FilteredProductsNoDefault ==
  SelectSeq(products, LAMBDA p : p.plan = selectedPlan \/ p.plan = "All")
FilteredProducts ==
  SelectSeq(products, LAMBDA p :
    LET productPlan == IF p.plan = "" THEN "All" ELSE p.plan
    IN productPlan = selectedPlan \/ productPlan = "All")

\* $: validLines
ValidLines(ls) == SelectSeq(ls, LAMBDA l : l.product # NullProduct)

\* chargeableQty of the summary (first pass of totals)
PageChargeableQty(line) ==
  IF line.isAllotment THEN Max(0, line.quantity - IncludedOrZero(line))
  ELSE line.quantity

\* A variant without the floor at zero.
QuoteLineChargeableQuantityUnfloored(isAllotment, quantity, includedQuantity) ==
  IF isAllotment THEN quantity - includedQuantity ELSE quantity

\* $: chargeableQuantity of QuoteLine.svelte, over the component's props
QuoteLineChargeableQuantity(isAllotment, quantity, includedQuantity) ==
  IF isAllotment THEN Max(0, quantity - includedQuantity) ELSE quantity

ZeroTotals == [annually |-> 0, monthly |-> 0, on_demand |-> 0]

\* First pass of totals: the reduce over validLines giving baseTotals
\* (whole currency units).
BaseStep(acc, line) ==
  IF line.product = NullProduct THEN acc
  ELSE IF IsPercentagePrice(line.product.billed_annually) THEN acc
  ELSE LET annualPrice == ParsePrice(line.product.billed_annually)
           monthlyPrice == ParsePrice(line.product.billed_month_to_month)
           onDemandPrice == ParsePrice(line.product.on_demand)
           chargeableQty == PageChargeableQty(line)
       IN [annually |-> acc.annually + annualPrice * chargeableQty,
           monthly |-> acc.monthly + monthlyPrice * chargeableQty,
           on_demand |-> acc.on_demand + onDemandPrice * chargeableQty]
RECURSIVE BaseTotals(_, _)
BaseTotals(ls, acc) ==
  IF ls = <<>> THEN acc ELSE BaseTotals(Tail(ls), BaseStep(acc, Head(ls)))

\* A variant where a percentage line counts once per unit of its quantity.
AddOnStepPerUnit(acc, line, baseTotals) ==
  IF line.product = NullProduct THEN acc
  ELSE IF ~IsPercentagePrice(line.product.billed_annually) THEN acc
  ELSE [annually |-> acc.annually + line.quantity * baseTotals.annually
                       * ParsePercentage(line.product.billed_annually),
        monthly |-> acc.monthly + line.quantity * baseTotals.monthly
                       * ParsePercentage(line.product.billed_month_to_month),
        on_demand |-> acc.on_demand + line.quantity * baseTotals.on_demand
                       * ParsePercentage(line.product.on_demand)]

\* Second pass: the reduce giving percentageAddOns, in hundredths
\* (base * percent stands for base * percent / 100).
AddOnStep(acc, line, baseTotals) ==
  IF line.product = NullProduct THEN acc
  ELSE IF ~IsPercentagePrice(line.product.billed_annually) THEN acc
  ELSE LET annualPercent == ParsePercentage(line.product.billed_annually)
           monthlyPercent == ParsePercentage(line.product.billed_month_to_month)
           onDemandPercent == ParsePercentage(line.product.on_demand)
       IN [annually |-> acc.annually + baseTotals.annually * annualPercent,
           monthly |-> acc.monthly + baseTotals.monthly * monthlyPercent,
           on_demand |-> acc.on_demand + baseTotals.on_demand * onDemandPercent]
RECURSIVE PercentageAddOns(_, _, _)
PercentageAddOns(ls, acc, baseTotals) ==
  IF ls = <<>> THEN acc
  ELSE PercentageAddOns(Tail(ls), AddOnStep(acc, Head(ls), baseTotals), baseTotals)

\* A variant in one pass, a percentage line taken on the subtotal of the
\* lines before it.
RECURSIVE RunningTotals(_, _, _)
RunningTotals(ls, base, addOns) ==
  IF ls = <<>>
  THEN [annually |-> 100 * base.annually + addOns.annually,
        monthly |-> 100 * base.monthly + addOns.monthly,
        on_demand |-> 100 * base.on_demand + addOns.on_demand]
  ELSE RunningTotals(Tail(ls), BaseStep(base, Head(ls)),
                     AddOnStep(addOns, Head(ls), base))
TotalsOfRunningSubtotal(ls) ==
  RunningTotals(ValidLines(ls), ZeroTotals, ZeroTotals)

\* $: totals, in hundredths
TotalsOf(ls) ==
  LET valid == ValidLines(ls)
      baseTotals == BaseTotals(valid, ZeroTotals)
      addOns == PercentageAddOns(valid, ZeroTotals, baseTotals)
  IN [annually |-> 100 * baseTotals.annually + addOns.annually,
      monthly |-> 100 * baseTotals.monthly + addOns.monthly,
      on_demand |-> 100 * baseTotals.on_demand + addOns.on_demand]
totals == TotalsOf(lines)

\* ------------------------------------------------- allotments of a product
\* productAllotmentsRaw filtered through seenAllotments: the rules of the
\* product, the first one only of each allotted_product name.
\* productAllotmentsRaw, without the deduplication by allotted_product
ProductAllotmentsRaw(allots, productId) ==
  SelectSeq(allots, LAMBDA a : a.parent_product_id = productId)
ProductAllotments(allots, productId) ==
  LET raw == SelectSeq(allots, LAMBDA a : a.parent_product_id = productId)
  IN Filter(raw, {i \in 1..Len(raw) :
                    \A j \in 1..(i - 1) :
                      raw[j].allotted_product # raw[i].allotted_product})

\* products.find(by allotted_product_id) || products.find(by name containment)
AllottedProduct(prods, allotment) ==
  LET byId == FindIdx({i \in 1..Len(prods) :
                         prods[i].id = allotment.allotted_product_id})
      byName == FindIdx({i \in 1..Len(prods) :
                  Includes(ToLowerCase(prods[i].product),
                           ToLowerCase(allotment.allotted_product))})
  IN IF byId # 0 THEN prods[byId]
     ELSE IF byName # 0 THEN prods[byName]
     ELSE NullProduct

AllotmentLine(id, allottedProduct, allotment, parentId, includedQty) ==
  [id |-> id, product |-> allottedProduct, quantity |-> includedQty,
   isAllotment |-> TRUE, parentLineId |-> parentId,
   allotmentInfo |-> allotment, includedQuantity |-> includedQty]

\* for (const allotment of productAllotments) { ... push an allotment line }
RECURSIVE PushAllotments(_, _, _, _, _)
PushAllotments(prods, ls, rules, parentId, quantity) ==
  IF rules = <<>> THEN ls
  ELSE LET allotment == Head(rules)
           allottedProduct == AllottedProduct(prods, allotment)
           includedQty == allotment.quantity_per_parent * quantity
       IN IF allottedProduct # NullProduct
          THEN PushAllotments(prods,
                 Append(ls, AllotmentLine(FreshId(UsedIds(ls)), allottedProduct,
                                          allotment, parentId, includedQty)),
                 Tail(rules), parentId, quantity)
          ELSE PushAllotments(prods, ls, Tail(rules), parentId, quantity)

\* --------------------------------------------------------------- updateLine
UpdateLineResult(ls, id, product, quantity) ==
  LET idx == FindIdx({i \in 1..Len(ls) : ls[i].id = id})
      existingLine == ls[idx]
      previousProductId == existingLine.product.id
      productChanged == product.id # previousProductId
  IN IF product # NullProduct /\ productChanged
     THEN LET kept == SelectSeq(ls, LAMBDA l : l.id # id /\ l.parentLineId # id)
              withLine == Append(kept, [existingLine EXCEPT !.product = product,
                                                            !.quantity = quantity])
          IN PushAllotments(products, withLine,
                            ProductAllotments(allotments, product.id), id, quantity)
     ELSE IF ~productChanged /\ quantity # existingLine.quantity
     THEN [i \in 1..Len(ls) |->
             IF ls[i].id = id
             THEN [ls[i] EXCEPT !.product = product, !.quantity = quantity]
             ELSE IF ls[i].parentLineId = id /\ ls[i].allotmentInfo # NoAllotment
             THEN [ls[i] EXCEPT !.includedQuantity =
                     ls[i].allotmentInfo.quantity_per_parent * quantity]
             ELSE ls[i]]
     ELSE [i \in 1..Len(ls) |->
             IF ls[i].id = id
             THEN [ls[i] EXCEPT !.product = product, !.quantity = quantity]
             ELSE ls[i]]

Qty == 1..MaxQty
\* The ids QuoteLine components exist for: {#each lines.filter(l => !l.isAllotment)}
RenderedIds == {lines[i].id : i \in {j \in 1..Len(lines) : ~lines[j].isAllotment}}
LineById(id) == lines[FindIdx({i \in 1..Len(lines) : lines[i].id = id})]

\* ------------------------------------------------------ items of a quote
\* items of clone / edit data and of an imported file: {id?, product, quantity}
\* (id "" when absent).  Matching is by id first, then by exact name.
MatchedProduct(prods, item) ==
  LET byId == IF item.id # ""
              THEN FindIdx({i \in 1..Len(prods) : prods[i].id = item.id})
              ELSE 0
      byName == FindIdx({i \in 1..Len(prods) : prods[i].product = item.product})
  IN IF byId # 0 THEN prods[byId]
     ELSE IF byName # 0 THEN prods[byName]
     ELSE NullProduct

\* The loop of loadClonedQuote and of loadEditQuote building newLines.
RECURSIVE NewLinesFromItems(_, _, _)
NewLinesFromItems(prods, items, newLines) ==
  IF items = <<>> THEN newLines
  ELSE LET item == Head(items)
           matchedProduct == MatchedProduct(prods, item)
       IN IF matchedProduct # NullProduct
          THEN NewLinesFromItems(prods, Tail(items),
                 Append(newLines,
                   [Placeholder(FreshId(UsedIds(lines \o newLines)))
                      EXCEPT !.product = matchedProduct,
                             !.quantity = item.quantity]))
          ELSE NewLinesFromItems(prods, Tail(items), newLines)
\* if (newLines.length > 0) lines = newLines
LinesAfterLoad(prods, items) ==
  LET newLines == NewLinesFromItems(prods, items, <<>>)
  IN IF Len(newLines) > 0 THEN newLines ELSE lines

\* The loop of processImportFile over data.items, lines having been cleared.
RECURSIVE ImportedLines(_, _, _, _)
ImportedLines(prods, allots, items, ls) ==
  IF items = <<>> THEN ls
  ELSE LET item == Head(items)
           matchingProduct == MatchedProduct(prods, item)
           quantity == IF item.quantity = 0 THEN 1 ELSE item.quantity
           lineId == FreshId(UsedIds(ls))
           newLine == [Placeholder(lineId) EXCEPT !.product = matchingProduct,
                                                  !.quantity = quantity]
       IN IF item.product = <<>> /\ item.id = "" THEN
            ImportedLines(prods, allots, Tail(items), ls)
          ELSE IF matchingProduct = NullProduct THEN
            ImportedLines(prods, allots, Tail(items), ls)
          ELSE
            ImportedLines(prods, allots, Tail(items),
              PushAllotments(prods, Append(ls, newLine),
                ProductAllotments(allots, matchingProduct.id), lineId, quantity))

\* addItemsFromCalculator's loop: `cur` is lines as the loop leaves it,
\* `newLines` the lines to append.
RECURSIVE CalculatorLoop(_, _, _)
CalculatorLoop(items, cur, newLines) ==
  IF items = <<>> THEN <<cur, newLines>>
  ELSE LET item == Head(items)
           existing == FindIdx({i \in 1..Len(cur) :
                                  cur[i].product # NullProduct
                                  /\ cur[i].product.id = item.product.id})
       IN IF existing # 0
          THEN CalculatorLoop(Tail(items),
                 [i \in 1..Len(cur) |->
                    IF cur[i].id = cur[existing].id
                    THEN [cur[i] EXCEPT !.quantity = cur[i].quantity + item.quantity]
                    ELSE cur[i]],
                 newLines)
          ELSE CalculatorLoop(Tail(items), cur,
                 Append(newLines,
                   [Placeholder(FreshId(UsedIds(cur \o newLines)))
                      EXCEPT !.product = item.product,
                             !.quantity = item.quantity]))
CalculatorResult(ls, items) ==
  LET r == CalculatorLoop(items, ls, <<>>)
  IN IF Len(r[2]) > 0
     THEN LET appended == ValidLines(r[1]) \o r[2]
          IN IF Len(appended) = 0 THEN r[2] ELSE appended
     ELSE r[1]

\* ------------------------------------------------------------- input sets
\* Items a stored quote can hold: a product known by id, one known by name
\* only, and one that no region serves.
QuoteItems ==
  {[id |-> k[1], product |-> k[2], quantity |-> q] :
     k \in {<<"p1", <<18, 5, 7>>>>, <<"", <<11, 6>>>>, <<"zz", <<2>>>>},
     q \in Qty}
ItemLists(S) == UNION {[1..n -> S] : n \in 0..MaxItems}
\* Items of an imported file; quantity 0 stands for a missing quantity.
ImportItems ==
  {[id |-> "p1", product |-> <<18, 5, 7>>, quantity |-> 0],
   [id |-> "", product |-> <<11, 6>>, quantity |-> MaxQty],
   [id |-> "zz", product |-> <<2>>, quantity |-> 1]}
\* The files: plan and region are "" when the file has none.
ImportFiles ==
  {[plan |-> "", region |-> "", items |-> items] :
     items \in ItemLists(ImportItems)}
  \cup {[plan |-> pr[1], region |-> pr[2], items |-> items] :
          pr \in {<<"Enterprise", "">>, <<"", "us">>, <<"", "eu1">>},
          items \in {items \in ItemLists(ImportItems) : Len(items) <= 1}}
\* ----------------------------------------------------- the log estimator
\* A JavaScript number that is a quotient: num / den, with x / 0 being
\* Infinity, -Infinity or NaN by the sign of x.
Quotient(n, d) == [num |-> n, den |-> d]
\* x > 0
GreaterThanZero(x) ==
  \/ x.den > 0 /\ x.num > 0
  \/ x.den < 0 /\ x.num < 0
  \/ x.den = 0 /\ x.num > 0
\* Math.ceil(x) of an x > 0: an integer, or Infinity for Infinity
MathCeil(x) ==
  IF x.den = 0 THEN [finite |-> FALSE, n |-> 0]
  ELSE LET n == IF x.den < 0 THEN 0 - x.num ELSE x.num
           d == IF x.den < 0 THEN 0 - x.den ELSE x.den
       IN [finite |-> TRUE, n |-> 0 - ((0 - n) \div d)]

\* The component's inputs as declared.  The four volumes and the log size
\* are held in tenths (100 GB is 1000), an emptied field counting as 0.
EstimatorDeclared ==
  [ingestedLogsGB |-> 1000, avgLogSizeKB |-> 20, indexingPercentage |-> 15,
   retentionDays |-> 15, enableFlexStarter |-> FALSE,
   enableFlexStorage |-> FALSE, enableForwarding |-> FALSE,
   flexStarterEvents |-> 100, flexStorageEvents |-> 500, forwardingGB |-> 200]

\* indexedLogsInMillions = ingestedLogsGB * 1024 * 1024 / avgLogSizeKB
\*                         * (indexingPercentage / 100) / 1_000_000,
\* the constants reduced: 1024 * 1024 / 10^8 = 4096 / 390625
IndexedLogsInMillions(e) ==
  Quotient(e.ingestedLogsGB * e.indexingPercentage * 4096,
           e.avgLogSizeKB * 390625)

\* products.find(..) by name and billing unit; NullProduct for undefined
FindProduct(idxSet) ==
  IF FindIdx(idxSet) = 0 THEN NullProduct ELSE products[FindIdx(idxSet)]
ingestionProduct ==
  FindProduct({i \in 1..Len(products) :
                 /\ Includes(ToLowerCase(products[i].product), <<3>>)
                 /\ Includes(ToLowerCase(products[i].product), <<5>>)})
IndexedProduct(retentionDays) ==
  FindProduct({i \in 1..Len(products) :
                 /\ Includes(ToLowerCase(products[i].product), <<8>>)
                 /\ Includes(ToLowerCase(products[i].billing_unit),
                             <<100 + retentionDays>>)})
flexStarterProduct ==
  FindProduct({i \in 1..Len(products) : products[i].product = <<11, 6>>})
flexStorageProduct ==
  FindProduct({i \in 1..Len(products) : products[i].product = <<11, 9>>})
forwardingProduct ==
  FindProduct({i \in 1..Len(products) : products[i].product = <<13, 16>>})

\* one push of addToQuote
Push(cond, product, amount) ==
  IF cond /\ product # NullProduct /\ GreaterThanZero(amount)
  THEN <<[product |-> product, quantity |-> MathCeil(amount)]>>
  ELSE <<>>
\* The items addToQuote collects, in the order of its pushes.
AddToQuoteItems(e) ==
  Push(TRUE, ingestionProduct, Quotient(e.ingestedLogsGB, 10))
  \o Push(TRUE, IndexedProduct(e.retentionDays), IndexedLogsInMillions(e))
  \o Push(e.enableFlexStarter, flexStarterProduct,
          Quotient(e.flexStarterEvents, 10))
  \o Push(e.enableFlexStorage, flexStorageProduct,
          Quotient(e.flexStorageEvents, 10))
  \o Push(e.enableForwarding, forwardingProduct, Quotient(e.forwardingGB, 10))
\* The Add to Quote button is disabled without the two main products.
AddToQuoteEnabled(e) ==
  ingestionProduct # NullProduct /\ IndexedProduct(e.retentionDays) # NullProduct

\* Inputs of the estimator tried from the editor.
EstimatorInputs ==
  {[EstimatorDeclared EXCEPT !.ingestedLogsGB = g, !.avgLogSizeKB = k,
                             !.retentionDays = d, !.enableFlexStarter = f,
                             !.flexStarterEvents = 15] :
     g \in {0, 5, 15}, k \in {-10, 20}, d \in {15, 30}, f \in BOOLEAN}
\* What the estimator hands to onAddToQuote for those inputs, within the
\* bounds: the lists of at most MaxItems items of at most MaxQty each.
CalculatorItems ==
  {[n \in 1..Len(items) |->
      [product |-> items[n].product, quantity |-> items[n].quantity.n]] :
     items \in {l \in {AddToQuoteItems(e) :
                         e \in {x \in EstimatorInputs : AddToQuoteEnabled(x)}} :
                  /\ Len(l) \in 1..MaxItems
                  /\ \A n \in 1..Len(l) :
                       l[n].quantity.finite /\ l[n].quantity.n <= MaxQty}}

\* ------------------------------------------------------------ loadProducts
\* A handler suspended in loadProducts: the fetches were issued for the
\* region selected when it was called.
LoadTask(op, region, items, snap) ==
  [op |-> op, region |-> region, items |-> items, snap |-> snap]
\* The part after the await, for the response of `region`.
LoadedProducts(region, ok) ==
  IF ok THEN SortProducts(ServedProducts(region)) ELSE products
LoadedMetadata(region, ok) == IF ok THEN region ELSE metadata
LoadedError(region, ok) ==
  IF ~ok THEN "load_failed"
  ELSE IF Len(ServedProducts(region)) = 0 THEN "no_products"
  ELSE error
Without(s, i) == [j \in 1..(Len(s) - 1) |-> IF j < i THEN s[j] ELSE s[j + 1]]

\* --------------------------------------------------------- initial states
NoParam ==
  [kind |-> "none", quoteId |-> Null, password |-> Null, region |-> "",
   items |-> <<>>]
\* ?clone= as cloneQuote builds it, ?edit= as redirectToEditor builds it
CloneParams ==
  {[kind |-> "clone", quoteId |-> Null, password |-> Null, region |-> r,
    items |-> items] : r \in Regions, items \in ItemLists(QuoteItems)}
EditParams(passwords, regions) ==
  {[kind |-> "edit", quoteId |-> "q1", password |-> pw, region |-> r,
    items |-> items] :
     pw \in passwords, r \in regions, items \in ItemLists(QuoteItems)}

NoQuote == [id |-> Null, is_protected |-> FALSE, region |-> ""]
NoNavigation == [kind |-> "none", quoteId |-> Null, editPassword |-> Null,
                 region |-> ""]

\* The shared quote page is not open.
SharedClosed ==
  /\ quote = NoQuote
  /\ passwordModalOpen = FALSE
  /\ unlockPassword = ""
  /\ unlockError = ""
  /\ verifying = FALSE
  /\ isUnlocked = FALSE
  /\ verifications = <<>>
  /\ navigation = NoNavigation

\* The editor's variables as declared, allotments as loadAllotments leaves them.
EditorDeclared ==
  /\ lines = <<Placeholder(1)>>
  /\ allotments = ServedAllotments
  /\ selectedRegion = "us"
  /\ selectedPlan = "Pro"
  /\ syncing = FALSE
  /\ error = ""
  /\ editingQuoteId = Null
  /\ editQuotePassword = Null
  /\ showAnnual = TRUE
  /\ showMonthly = TRUE
  /\ showOnDemand = FALSE
  /\ saving = FALSE
  /\ saveModalOpen = FALSE
  /\ editPassword = ""
  /\ confirmPassword = ""
  /\ passwordError = ""
  /\ requests = <<>>
  /\ estimator = EstimatorDeclared
  /\ handed = <<>>

\* The editor at the point where onMount has loaded regions, allotments and
\* the products of 'us' and is about to read the URL.
EditorMounted(params) ==
  /\ EditorDeclared
  /\ products = SortProducts(ServedProducts("us"))
  /\ metadata = "us"
  /\ loading = FALSE
  /\ urlParam \in params
  /\ mountPc = "params"
  /\ pending = <<>>

\* The editor at the point where onMount is inside its loadProducts.
EditorMounting ==
  /\ EditorDeclared
  /\ products = <<>>
  /\ metadata = ""
  /\ loading = TRUE
  /\ urlParam = NoParam
  /\ mountPc = "products"
  /\ pending = <<LoadTask("mount", "us", <<>>, <<>>)>>

Init == EditorMounted({NoParam}) /\ SharedClosed

\* ------------------------------------------------------------------ onMount
\* onMount after its three loads, no edit and no clone parameter in the URL
mountPlain ==
  /\ mountPc = "params"
  /\ urlParam.kind = "none"
  /\ mountPc' = "done"
  /\ UNCHANGED <<lines, allotments, selectedPlan, loadVars, editVars, urlParam,
                 viewVars, saveVars, sharedVars, estimator, handed>>

\* onMount with ?clone=: loadClonedQuote(cloneData), then goto('/')
loadClonedQuote ==
  /\ mountPc = "params"
  /\ urlParam.kind = "clone"
  /\ lines' = LinesAfterLoad(products, urlParam.items)
  /\ mountPc' = "done"
  /\ UNCHANGED <<allotments, selectedPlan, loadVars, editVars, urlParam,
                 viewVars, saveVars, sharedVars, estimator, handed>>

\* onMount with ?edit=: loadEditQuote(editData) up to its await, or to its
\* end (and goto('/')) when the region is the selected one
loadEditQuote ==
  /\ mountPc = "params"
  /\ urlParam.kind = "edit"
  /\ editingQuoteId' = urlParam.quoteId
  /\ editQuotePassword' = urlParam.password
  /\ IF urlParam.region # "" /\ urlParam.region # selectedRegion
     THEN /\ selectedRegion' = urlParam.region
          /\ loading' = TRUE
          /\ error' = ""
          /\ pending' = Append(pending,
                          LoadTask("edit", urlParam.region, urlParam.items, <<>>))
          /\ mountPc' = "edit"
          /\ UNCHANGED <<lines, products, metadata, syncing>>
     ELSE /\ lines' = LinesAfterLoad(products, urlParam.items)
          /\ mountPc' = "done"
          /\ UNCHANGED loadVars
  /\ UNCHANGED <<allotments, selectedPlan, urlParam, viewVars, saveVars,
                 sharedVars, estimator, handed>>

\* loadEditQuote resumed when its loadProducts settles
loadEditQuoteResumed ==
  \E i \in 1..Len(pending), ok \in BOOLEAN :
    /\ pending[i].op = "edit"
    /\ products' = LoadedProducts(pending[i].region, ok)
    /\ metadata' = LoadedMetadata(pending[i].region, ok)
    /\ error' = LoadedError(pending[i].region, ok)
    /\ loading' = FALSE
    /\ pending' = Without(pending, i)
    /\ lines' = LinesAfterLoad(products', pending[i].items)
    /\ mountPc' = "done"
    /\ UNCHANGED <<allotments, selectedPlan, selectedRegion, syncing, editVars,
                   urlParam, viewVars, saveVars, sharedVars, estimator, handed>>

\* Events are handled while the editor is the page shown, and none between
\* the end of onMount's loadProducts and its reading of the URL (they are one
\* continuation).
AcceptsEvents == mountPc # "params" /\ navigation.kind = "none"

\* ------------------------------------------------------------ line editing
\* The line table, with its Add Product button, is rendered only while
\* loading is false, and lies under the overlay of the save modal.
addLine ==
  /\ AcceptsEvents /\ ~loading /\ ~saveModalOpen
  /\ Len(lines) < MaxLines
  /\ lines' = Append(lines, Placeholder(FreshId(UsedIds(lines))))
  /\ UNCHANGED <<allotments, selectedPlan, loadVars, editVars, urlParam,
                 mountPc, viewVars, saveVars, sharedVars, estimator, handed>>

\* on:update of a QuoteLine: a product picked in ProductSearch (one of
\* filteredProducts) or the quantity input changed (the line's own product).
updateLine ==
  /\ AcceptsEvents /\ ~loading /\ ~saveModalOpen
  /\ \E id \in RenderedIds, quantity \in Qty :
       \E product \in Range(FilteredProducts) \cup {LineById(id).product} :
         LET newLines == UpdateLineResult(lines, id, product, quantity)
         IN /\ Len(newLines) <= MaxLines
            /\ lines' = newLines
  /\ UNCHANGED <<allotments, selectedPlan, loadVars, editVars, urlParam,
                 mountPc, viewVars, saveVars, sharedVars, estimator, handed>>

\* removeLine filtering on the id alone
RemoveLineResultKeepsAllotments(ls, id, fresh) ==
  LET rest == SelectSeq(ls, LAMBDA l : l.id # id)
  IN IF Len(rest) = 0 THEN <<Placeholder(fresh)>> ELSE rest
RemoveLineResult(ls, id, fresh) ==
  LET rest == SelectSeq(ls, LAMBDA l : l.id # id /\ l.parentLineId # id)
  IN IF Len(rest) = 0 THEN <<Placeholder(fresh)>> ELSE rest

removeLine ==
  /\ AcceptsEvents /\ ~loading /\ ~saveModalOpen
  /\ \E id \in RenderedIds :
       lines' = RemoveLineResult(lines, id, FreshId(UsedIds(lines) \ {id}))
  /\ UNCHANGED <<allotments, selectedPlan, loadVars, editVars, urlParam,
                 mountPc, viewVars, saveVars, sharedVars, estimator, handed>>

\* onAddToQuote of the log estimator
addItemsFromCalculator ==
  /\ AcceptsEvents
  /\ \E items \in CalculatorItems :
       LET newLines == CalculatorResult(lines, items)
       IN /\ Len(newLines) <= MaxLines
          /\ \A i \in 1..Len(newLines) : newLines[i].quantity <= MaxQty
          /\ lines' = newLines
  /\ UNCHANGED <<allotments, selectedPlan, loadVars, editVars, urlParam,
                 mountPc, viewVars, saveVars, sharedVars, estimator, handed>>

\* processImportFile from the file's text on, up to its first await on
\* loadProducts or to its end.  (allotments is never empty here, so its
\* loadAllotments is not reached.)
ProcessImportFile(files) ==
  /\ AcceptsEvents
  /\ \E data \in files :
       /\ selectedPlan' = IF data.plan # "" THEN data.plan ELSE selectedPlan
       /\ IF data.region # "" /\ data.region # selectedRegion
          THEN /\ selectedRegion' = data.region
               /\ loading' = TRUE
               /\ error' = ""
               /\ Len(pending) < MaxInFlight
               /\ pending' = Append(pending,
                               LoadTask("import", data.region, data.items, <<>>))
               /\ UNCHANGED <<lines, products, metadata, syncing>>
          ELSE IF Len(products) = 0
          THEN /\ loading' = TRUE
               /\ error' = ""
               /\ Len(pending) < MaxInFlight
               /\ pending' = Append(pending,
                               LoadTask("import2", selectedRegion, data.items, <<>>))
               /\ UNCHANGED <<lines, products, metadata, syncing, selectedRegion>>
          ELSE /\ lines' = ImportedLines(products, allotments, data.items, <<>>)
               /\ UNCHANGED loadVars
  /\ UNCHANGED <<allotments, editVars, urlParam, mountPc, viewVars, saveVars,
                 sharedVars, estimator, handed>>
\* a file that names no plan and no other region than the selected one
processImportFile ==
  ProcessImportFile({f \in ImportFiles :
                       f.plan = "" /\ f.region \in {"", selectedRegion}})

\* processImportFile resumed when a loadProducts of its settles: after the
\* region's load it loads once more if products is still empty, then (or
\* after that second load) it rebuilds the lines
processImportFileResumed ==
  \E i \in 1..Len(pending), ok \in BOOLEAN :
    /\ pending[i].op \in {"import", "import2"}
    /\ products' = LoadedProducts(pending[i].region, ok)
    /\ metadata' = LoadedMetadata(pending[i].region, ok)
    /\ IF pending[i].op = "import" /\ Len(products') = 0
       THEN /\ loading' = TRUE
            /\ error' = ""
            /\ pending' = [pending EXCEPT ![i] =
                             LoadTask("import2", selectedRegion,
                                      pending[i].items, <<>>)]
            /\ UNCHANGED lines
       ELSE /\ loading' = FALSE
            /\ error' = LoadedError(pending[i].region, ok)
            /\ pending' = Without(pending, i)
            /\ lines' = ImportedLines(products', allotments, pending[i].items, <<>>)
    /\ UNCHANGED <<allotments, selectedPlan, selectedRegion, syncing, editVars,
                   urlParam, mountPc, viewVars, saveVars, sharedVars, estimator, handed>>

\* ------------------------------------------------------- regions and sync
\* The fetches of a loadProducts settle: fulfilled (ok) or fetchProducts
\* rejected.  fetchMetadata is taken to answer whenever fetchProducts does.
\* onMount resumed after its loadProducts, the URL holding no parameter
mountProductsLoaded ==
  \E i \in 1..Len(pending), ok \in BOOLEAN :
    /\ pending[i].op = "mount"
    /\ products' = LoadedProducts(pending[i].region, ok)
    /\ metadata' = LoadedMetadata(pending[i].region, ok)
    /\ error' = LoadedError(pending[i].region, ok)
    /\ loading' = FALSE
    /\ pending' = Without(pending, i)
    /\ mountPc' = "done"
    /\ UNCHANGED <<lines, allotments, selectedPlan, selectedRegion, syncing,
                   editVars, urlParam, viewVars, saveVars, sharedVars, estimator, handed>>

\* The region <select> (never disabled) set to another region: the binding
\* assigns selectedRegion, then handleRegionChange runs up to its await.
handleRegionChange ==
  \E region \in Regions \ {selectedRegion} :
    /\ AcceptsEvents
    /\ Len(pending) < MaxInFlight
    /\ selectedRegion' = region
    /\ metadata' = ""
    /\ loading' = TRUE
    /\ error' = ""
    /\ pending' = Append(pending, LoadTask("region", region, <<>>, lines))
    /\ UNCHANGED <<lines, products, allotments, selectedPlan, syncing, editVars,
                   urlParam, mountPc, viewVars, saveVars, sharedVars, estimator, handed>>

\* the snapshot put back as it was, products not matched again
RestoredLinesAsSnapshotted(prods, snap) == snap
\* previousSelections.map(...) over the products now held
RestoredLines(prods, snap) ==
  [i \in 1..Len(snap) |->
     [snap[i] EXCEPT !.product =
        IF snap[i].product = NullProduct THEN NullProduct
        ELSE MatchedProduct(prods, [id |-> snap[i].product.id,
                                    product |-> snap[i].product.product])]]

handleRegionChangeResumed ==
  \E i \in 1..Len(pending), ok \in BOOLEAN :
    /\ pending[i].op = "region"
    /\ products' = LoadedProducts(pending[i].region, ok)
    /\ metadata' = LoadedMetadata(pending[i].region, ok)
    /\ error' = LoadedError(pending[i].region, ok)
    /\ loading' = FALSE
    /\ pending' = Without(pending, i)
    /\ lines' = RestoredLines(products', pending[i].snap)
    /\ UNCHANGED <<allotments, selectedPlan, selectedRegion, syncing, editVars,
                   urlParam, mountPc, viewVars, saveVars, sharedVars, estimator, handed>>

\* The sync button (disabled while syncing): handleSync up to syncPricing
handleSync ==
  /\ AcceptsEvents
  /\ ~syncing
  /\ Len(pending) < MaxInFlight
  /\ syncing' = TRUE
  /\ error' = ""
  /\ pending' = Append(pending, LoadTask("sync", selectedRegion, <<>>, <<>>))
  /\ UNCHANGED <<lines, products, metadata, allotments, selectedPlan,
                 selectedRegion, loading, editVars, urlParam, mountPc, viewVars,
                 saveVars, sharedVars, estimator, handed>>

\* syncPricing settles: handleSync goes on into loadProducts, which reads
\* selectedRegion now, or fails into its catch and finally
syncPricingSettled ==
  \E i \in 1..Len(pending), ok \in BOOLEAN :
    /\ pending[i].op = "sync"
    /\ IF ok
       THEN /\ loading' = TRUE
            /\ error' = ""
            /\ pending' = [pending EXCEPT ![i] =
                             LoadTask("syncload", selectedRegion, <<>>, <<>>)]
            /\ UNCHANGED syncing
       ELSE /\ error' = "sync_failed"
            /\ syncing' = FALSE
            /\ pending' = Without(pending, i)
            /\ UNCHANGED loading
    /\ UNCHANGED <<lines, products, metadata, allotments, selectedPlan,
                   selectedRegion, editVars, urlParam, mountPc, viewVars,
                   saveVars, sharedVars, estimator, handed>>

\* handleSync resumed after its loadProducts
handleSyncResumed ==
  \E i \in 1..Len(pending), ok \in BOOLEAN :
    /\ pending[i].op = "syncload"
    /\ products' = LoadedProducts(pending[i].region, ok)
    /\ metadata' = LoadedMetadata(pending[i].region, ok)
    /\ error' = LoadedError(pending[i].region, ok)
    /\ loading' = FALSE
    /\ syncing' = FALSE
    /\ pending' = Without(pending, i)
    /\ UNCHANGED <<lines, allotments, selectedPlan, selectedRegion, editVars,
                   urlParam, mountPc, viewVars, saveVars, sharedVars, estimator, handed>>

\* a file that names a region and no plan
processImportFileOfRegion ==
  ProcessImportFile({f \in ImportFiles : f.plan = "" /\ f.region # ""})

\* ------------------------------------------------------------- save flow
\* The items handleShare builds: one per line holding a product that is not
\* an allotment line, each with the allotment lines attached to it.
ShareAllotments(ls, id) ==
  LET attached == Filter(ls, {i \in 1..Len(ls) :
                               ls[i].isAllotment /\ ls[i].parentLineId = id})
  IN [n \in 1..Len(attached) |->
        [id |-> attached[n].product.id,
         allotted_product |-> attached[n].product.product,
         quantity_included |-> IncludedOrZero(attached[n])]]
\* the same without the filter on isAllotment
ShareItemsOfValidLines(ls) ==
  LET parents == ValidLines(ls)
  IN [n \in 1..Len(parents) |->
        [id |-> parents[n].product.id, product |-> parents[n].product.product,
         quantity |-> parents[n].quantity,
         allotments |-> ShareAllotments(ls, parents[n].id)]]
ShareItems(ls) ==
  LET parents == SelectSeq(ValidLines(ls), LAMBDA l : ~l.isAllotment)
  IN [n \in 1..Len(parents) |->
        [id |-> parents[n].product.id, product |-> parents[n].product.product,
         quantity |-> parents[n].quantity,
         allotments |-> ShareAllotments(ls, parents[n].id)]]
\* al.product!.id on an allotment line without product
ShareThrows(ls) ==
  \E i, j \in 1..Len(ls) :
    /\ ls[i].product # NullProduct /\ ~ls[i].isAllotment
    /\ ls[j].isAllotment /\ ls[j].parentLineId = ls[i].id
    /\ ls[j].product = NullProduct

\* Variants issuing one kind of request whatever the mode.
SaveRequestAlwaysCreate ==
  [op |-> "createQuote", quoteId |-> Null,
   edit_password |-> IF editPassword = "" THEN Null ELSE editPassword,
   items |-> ShareItems(lines)]
SaveRequestAlwaysUpdate ==
  [op |-> "updateQuote", quoteId |-> editingQuoteId,
   edit_password |-> editQuotePassword, items |-> ShareItems(lines)]

\* The call handleShare makes: updateQuote(editingQuoteId, ..,
\* editQuotePassword) or createQuote(.., editPassword || null)
SaveRequest ==
  IF editingQuoteId # Null
  THEN [op |-> "updateQuote", quoteId |-> editingQuoteId,
        edit_password |-> editQuotePassword, items |-> ShareItems(lines)]
  ELSE [op |-> "createQuote", quoteId |-> Null,
        edit_password |-> IF editPassword = "" THEN Null ELSE editPassword,
        items |-> ShareItems(lines)]

\* handleShare sending whatever the passwords are
HandleShareResultUnchecked ==
  [passwordError |-> "", saving |-> TRUE, error |-> "",
   requests |-> Append(requests, SaveRequest)]
\* handleShare issuing its request without setting saving
HandleShareResultNotSaving ==
  IF editingQuoteId = Null /\ editPassword # "" /\ editPassword # confirmPassword
  THEN [passwordError |-> "mismatch", saving |-> saving, error |-> error,
        requests |-> requests]
  ELSE [passwordError |-> "", saving |-> FALSE, error |-> "",
        requests |-> Append(requests, SaveRequest)]
\* What handleShare leaves when it returns or reaches its await: it returns
\* on a password mismatch; building the items throws when an attached
\* allotment line has no product, which its catch and finally turn into an
\* error with saving false again; otherwise the request is issued.
HandleShareResult ==
  IF editingQuoteId = Null /\ editPassword # "" /\ editPassword # confirmPassword
  THEN [passwordError |-> "mismatch", saving |-> saving, error |-> error,
        requests |-> requests]
  ELSE IF ShareThrows(lines)
  THEN [passwordError |-> "", saving |-> FALSE, error |-> "save_failed",
        requests |-> requests]
  ELSE [passwordError |-> "", saving |-> TRUE, error |-> "",
        requests |-> Append(requests, SaveRequest)]

\* handleShare up to its await
HandleShare ==
  /\ passwordError' = HandleShareResult.passwordError
  /\ saving' = HandleShareResult.saving
  /\ error' = HandleShareResult.error
  /\ requests' = HandleShareResult.requests

\* The save button of the share menu (disabled while saving)
openSaveModal ==
  /\ AcceptsEvents
  /\ ~saving
  /\ IF Len(ValidLines(lines)) = 0
     THEN /\ error' = "no_products"
          /\ UNCHANGED saveVars
     ELSE IF editingQuoteId # Null
     THEN /\ HandleShare
          /\ UNCHANGED <<saveModalOpen, editPassword, confirmPassword>>
     ELSE /\ editPassword' = ""
          /\ confirmPassword' = ""
          /\ passwordError' = ""
          /\ saveModalOpen' = TRUE
          /\ UNCHANGED <<saving, requests, error>>
  /\ UNCHANGED <<lines, products, metadata, allotments, selectedRegion,
                 selectedPlan, loading, syncing, pending, editVars, urlParam,
                 mountPc, viewVars, sharedVars, estimator, handed>>

SavePasswords == {"", "pw"}
\* the two password inputs of the save modal; the confirmation is shown
\* while the password is not empty
typeEditPassword ==
  /\ AcceptsEvents /\ saveModalOpen
  /\ \E pw \in SavePasswords \ {editPassword} : editPassword' = pw
  /\ UNCHANGED <<lines, allotments, selectedPlan, loadVars, editVars, urlParam,
                 mountPc, viewVars, saving, saveModalOpen, confirmPassword,
                 passwordError, requests, sharedVars, estimator, handed>>
typeConfirmPassword ==
  /\ AcceptsEvents /\ saveModalOpen /\ editPassword # ""
  /\ \E pw \in SavePasswords \ {confirmPassword} : confirmPassword' = pw
  /\ UNCHANGED <<lines, allotments, selectedPlan, loadVars, editVars, urlParam,
                 mountPc, viewVars, saving, saveModalOpen, editPassword,
                 passwordError, requests, sharedVars, estimator, handed>>

\* The Save button of the modal, disabled while saving or on a mismatch
handleShare ==
  /\ AcceptsEvents /\ saveModalOpen
  /\ ~(saving \/ (editPassword # "" /\ editPassword # confirmPassword))
  /\ HandleShare
  /\ UNCHANGED <<lines, products, metadata, allotments, selectedRegion,
                 selectedPlan, loading, syncing, pending, editVars, urlParam,
                 mountPc, viewVars, saveModalOpen, editPassword, confirmPassword,
                 sharedVars, estimator, handed>>

\* Cancel, the close button, the backdrop or Escape
closeSaveModal ==
  /\ AcceptsEvents /\ saveModalOpen
  /\ saveModalOpen' = FALSE
  /\ UNCHANGED <<lines, allotments, selectedPlan, loadVars, editVars, urlParam,
                 mountPc, viewVars, saving, editPassword, confirmPassword,
                 passwordError, requests, sharedVars, estimator, handed>>

\* createQuote / updateQuote settles: the rest of handleShare
handleShareResumed ==
  \E i \in 1..Len(requests), ok \in BOOLEAN :
    /\ requests' = Without(requests, i)
    /\ IF ok THEN saveModalOpen' = FALSE /\ UNCHANGED error
             ELSE error' = "save_failed" /\ UNCHANGED saveModalOpen
    /\ saving' = FALSE
    /\ UNCHANGED <<lines, products, metadata, allotments, selectedRegion,
                   selectedPlan, loading, syncing, pending, editVars, urlParam,
                   mountPc, viewVars, editPassword, confirmPassword,
                   passwordError, sharedVars, estimator, handed>>

\* Cancel of the edit-mode banner
cancelEdit ==
  /\ AcceptsEvents
  /\ editingQuoteId # Null
  /\ editingQuoteId' = Null
  /\ editQuotePassword' = Null
  /\ navigation' = [kind |-> "quote", quoteId |-> editingQuoteId,
                    editPassword |-> Null, region |-> ""]
  /\ UNCHANGED <<lines, allotments, selectedPlan, loadVars, urlParam, mountPc,
                 viewVars, saveVars, quote, passwordModalOpen, unlockPassword,
                 unlockError, verifying, isUnlocked, verifications, estimator,
                 handed>>

\* ------------------------------------------------------- billing summary
toggleAnnual ==
  /\ AcceptsEvents
  /\ showAnnual' = ~showAnnual
  /\ UNCHANGED <<lines, allotments, selectedPlan, loadVars, editVars, urlParam,
                 mountPc, showMonthly, showOnDemand, saveVars, sharedVars, estimator, handed>>
toggleMonthly ==
  /\ AcceptsEvents
  /\ showMonthly' = ~showMonthly
  /\ UNCHANGED <<lines, allotments, selectedPlan, loadVars, editVars, urlParam,
                 mountPc, showAnnual, showOnDemand, saveVars, sharedVars, estimator, handed>>
toggleOnDemand ==
  /\ AcceptsEvents
  /\ showOnDemand' = ~showOnDemand
  /\ UNCHANGED <<lines, allotments, selectedPlan, loadVars, editVars, urlParam,
                 mountPc, showAnnual, showMonthly, saveVars, sharedVars, estimator, handed>>

\* $: annualCosts (hundredths)
annualCosts ==
  [annually |-> totals.annually * 12, monthly |-> totals.monthly * 12,
   on_demand |-> totals.on_demand * 12]
NoOption == [key |-> Null, cost |-> 0]
\* const visible = []; if (show..) visible.push(..)
Visible ==
  (IF showAnnual THEN <<[key |-> "annual", cost |-> annualCosts.annually]>>
   ELSE <<>>)
  \o (IF showMonthly THEN <<[key |-> "monthly", cost |-> annualCosts.monthly]>>
      ELSE <<>>)
  \o (IF showOnDemand THEN <<[key |-> "ondemand", cost |-> annualCosts.on_demand]>>
      ELSE <<>>)
\* visible.reduce((min, curr) => curr.cost < min.cost ? curr : min)
RECURSIVE ReduceMin(_, _)
ReduceMin(min, rest) ==
  IF rest = <<>> THEN min
  ELSE ReduceMin(IF Head(rest).cost < min.cost THEN Head(rest) ELSE min, Tail(rest))
\* visible.reduce((max, curr) => curr.cost > max.cost ? curr : max)
RECURSIVE ReduceMax(_, _)
ReduceMax(max, rest) ==
  IF rest = <<>> THEN max
  ELSE ReduceMax(IF Head(rest).cost > max.cost THEN Head(rest) ELSE max, Tail(rest))
\* A variant that takes the first visible option.
bestValueOptionFirstVisible ==
  IF Len(Visible) < 2 THEN NoOption ELSE Head(Visible)
\* $: bestValueOption, NoOption for null
bestValueOption ==
  IF Len(Visible) < 2 THEN NoOption ELSE ReduceMin(Head(Visible), Tail(Visible))
\* $: worstValueOption
worstValueOption ==
  IF Len(Visible) < 2 THEN NoOption ELSE ReduceMax(Head(Visible), Tail(Visible))
\* $: dynamicSavings
dynamicSavings ==
  IF bestValueOption # NoOption /\ worstValueOption # NoOption
     /\ bestValueOption.key # worstValueOption.key
  THEN worstValueOption.cost - bestValueOption.cost
  ELSE 0
\* {#if show..} ... {#if bestValueOption?.key === key && dynamicSavings > 0}
ColumnShown(key) ==
  CASE key = "annual" -> showAnnual
    [] key = "monthly" -> showMonthly
    [] OTHER -> showOnDemand
BestValueBadge(key) ==
  ColumnShown(key) /\ bestValueOption.key = key /\ dynamicSavings > 0

\* ------------------------------------------------------ shared quote page
\* The password the quote was saved with, and what POST verify-password
\* answers for a submitted one.
QuotePassword == "pw"
ServerVerdict(password) == IF password = QuotePassword THEN "valid" ELSE "invalid"
UnlockPasswords == {"pw", "bad", ""}

\* redirectToEditor: the edit data of goto('/?edit=..')
RedirectToEditor(unlocked, typed) ==
  [kind |-> "edit", quoteId |-> quote.id,
   editPassword |-> IF unlocked THEN typed ELSE Null, region |-> quote.region]

\* The pages's buttons exist while the quote is shown.
QuoteShown == quote # NoQuote /\ navigation.kind = "none"

attemptEdit ==
  /\ QuoteShown
  /\ IF quote.is_protected /\ ~isUnlocked
     THEN /\ passwordModalOpen' = TRUE
          /\ unlockPassword' = ""
          /\ unlockError' = ""
          /\ UNCHANGED navigation
     ELSE /\ navigation' = RedirectToEditor(isUnlocked, unlockPassword)
          /\ UNCHANGED <<passwordModalOpen, unlockPassword, unlockError>>
  /\ UNCHANGED <<editorVars, quote, verifying, isUnlocked, verifications>>

\* the password input of the modal (enabled also while verifying)
typeUnlockPassword ==
  /\ QuoteShown /\ passwordModalOpen
  /\ \E pw \in UnlockPasswords \ {unlockPassword} : unlockPassword' = pw
  /\ UNCHANGED <<editorVars, quote, passwordModalOpen, unlockError, verifying,
                 isUnlocked, verifications, navigation>>

\* Cancel, the close button, the backdrop or Escape
closePasswordModal ==
  /\ QuoteShown /\ passwordModalOpen
  /\ passwordModalOpen' = FALSE
  /\ UNCHANGED <<editorVars, quote, unlockPassword, unlockError, verifying,
                 isUnlocked, verifications, navigation>>

\* The form submitted (its button is disabled while verifying or without a
\* password): verifyAndUnlock up to its await
verifyAndUnlock ==
  /\ QuoteShown /\ passwordModalOpen
  /\ ~(verifying \/ unlockPassword = "")
  /\ Len(verifications) < MaxVerify
  /\ verifying' = TRUE
  /\ unlockError' = ""
  /\ verifications' = Append(verifications,
                         [password |-> unlockPassword, answer |-> "pending"])
  /\ UNCHANGED <<editorVars, quote, passwordModalOpen, unlockPassword,
                 isUnlocked, navigation>>

\* A variant that takes every answer for a valid one.
ResultValidAlways(answer) == TRUE
\* if (result.valid)
ResultValid(answer) == answer = "valid"

\* verifyQuotePassword settles (answered, or thrown): the rest of
\* verifyAndUnlock, which runs whether or not the page is still shown
verifyAndUnlockResumed ==
  \E i \in 1..Len(verifications) :
    \E answer \in {ServerVerdict(verifications[i].password), "failed"} :
      /\ verifications[i].answer = "pending"
      /\ verifications' = [verifications EXCEPT ![i].answer = answer]
      /\ IF answer # "failed" /\ ResultValid(answer)
         THEN /\ isUnlocked' = TRUE
              /\ passwordModalOpen' = FALSE
              /\ navigation' = RedirectToEditor(TRUE, unlockPassword)
              /\ UNCHANGED unlockError
         ELSE /\ unlockError' = answer
              /\ UNCHANGED <<isUnlocked, passwordModalOpen, navigation>>
      /\ verifying' = FALSE
      /\ UNCHANGED <<editorVars, quote, unlockPassword>>

cloneQuote ==
  /\ QuoteShown
  /\ navigation' = [kind |-> "clone", quoteId |-> Null, editPassword |-> Null,
                    region |-> quote.region]
  /\ UNCHANGED <<editorVars, quote, passwordModalOpen, unlockPassword,
                 unlockError, verifying, isUnlocked, verifications>>

\* ----------------------------------------------------------- specifications
\* The editor operations on the line list, everything loaded.
Next ==
  \/ mountPlain
  \/ addLine
  \/ updateLine
  \/ removeLine
  \/ addItemsFromCalculator
  \/ processImportFile
Spec == Init /\ [][Next]_vars

\* Only the three operations of the line table.
NextLines ==
  \/ mountPlain
  \/ addLine
  \/ updateLine
  \/ removeLine
SpecLines == Init /\ [][NextLines]_vars

\* The editor opened with ?clone= or ?edit= data, lines then added and removed.
InitMount ==
  /\ EditorMounted(CloneParams \cup EditParams({"pw"}, {"", "us", "eu1"}))
  /\ SharedClosed
NextMount ==
  \/ loadClonedQuote
  \/ loadEditQuote
  \/ loadEditQuoteResumed
  \/ addLine
  \/ removeLine
SpecMount == InitMount /\ [][NextMount]_vars

\* Region changes, syncs and imports racing, from onMount's loadProducts on.
InitRegion == EditorMounting /\ SharedClosed
NextRegion ==
  \/ mountProductsLoaded
  \/ handleRegionChange
  \/ handleRegionChangeResumed
  \/ handleSync
  \/ syncPricingSettled
  \/ handleSyncResumed
  \/ processImportFileOfRegion
  \/ processImportFileResumed
SpecRegion == InitRegion /\ [][NextRegion]_vars

\* The shared quote page with a quote loaded, protected or not.
InitShared ==
  /\ EditorMounted({NoParam})
  /\ quote \in {[id |-> "q1", is_protected |-> b, region |-> "eu1"] :
                  b \in BOOLEAN}
  /\ passwordModalOpen = FALSE
  /\ unlockPassword = ""
  /\ unlockError = ""
  /\ verifying = FALSE
  /\ isUnlocked = FALSE
  /\ verifications = <<>>
  /\ navigation = NoNavigation
NextShared ==
  \/ attemptEdit
  \/ typeUnlockPassword
  \/ closePasswordModal
  \/ verifyAndUnlock
  \/ verifyAndUnlockResumed
  \/ cloneQuote
SpecShared == InitShared /\ [][NextShared]_vars

\* The editor opened plainly, with ?clone= or with ?edit=, then saving.
InitSave ==
  /\ EditorMounted({NoParam} \cup CloneParams
                    \cup EditParams({Null, "", "pw"}, {"", "us", "eu1"}))
  /\ SharedClosed
NextSave ==
  \/ mountPlain
  \/ loadClonedQuote
  \/ loadEditQuote
  \/ loadEditQuoteResumed
  \/ openSaveModal
  \/ typeEditPassword
  \/ typeConfirmPassword
  \/ handleShare
  \/ closeSaveModal
  \/ handleShareResumed
  \/ cancelEdit
SpecSave == InitSave /\ [][NextSave]_vars

\* The line table and the billing toggles of the summary.
NextSummary ==
  \/ mountPlain
  \/ addLine
  \/ updateLine
  \/ removeLine
  \/ toggleAnnual
  \/ toggleMonthly
  \/ toggleOnDemand
SpecSummary == Init /\ [][NextSummary]_vars

\* ---------------------------------------------------------- plan selector
\* on:click of the Pro / Enterprise buttons
selectPlan ==
  /\ AcceptsEvents
  /\ \E plan \in {"Pro", "Enterprise"} : selectedPlan' = plan
  /\ UNCHANGED <<lines, allotments, loadVars, editVars, urlParam, mountPc,
                 viewVars, saveVars, sharedVars, estimator, handed>>

\* The line table and the plan selector.
NextPlan ==
  \/ mountPlain
  \/ addLine
  \/ updateLine
  \/ removeLine
  \/ selectPlan
SpecPlan == Init /\ [][NextPlan]_vars

\* Lines added and removed in the table, the estimator, imports of one item
\* and region changes (one at a time) together.
processImportFileOfOneItem ==
  ProcessImportFile({f \in ImportFiles :
                       f.plan = "" /\ f.region = "" /\ Len(f.items) = 1})
handleRegionChangeAlone == pending = <<>> /\ handleRegionChange
NextEditor ==
  \/ mountPlain
  \/ addLine
  \/ removeLine
  \/ addItemsFromCalculator
  \/ processImportFileOfOneItem
  \/ handleRegionChangeAlone
  \/ handleRegionChangeResumed
SpecEditor == Init /\ [][NextEditor]_vars

\* The line table and the save flow of a new quote, the modal left open
\* until the save has settled.
NextSaveLines ==
  \/ mountPlain
  \/ addLine
  \/ updateLine
  \/ removeLine
  \/ openSaveModal
  \/ typeEditPassword
  \/ typeConfirmPassword
  \/ handleShare
  \/ handleShareResumed
SpecSaveLines == Init /\ [][NextSaveLines]_vars

\* ------------------------------------------------ the log estimator alone
\* What GET /api/products answers when the catalogue holds the log products:
\* ingestion, indexed events of 7 and of 15 days, and the three extras.
ServedLogProducts ==
  << [id |-> "l1", product |-> <<13, 5>>, plan |-> "All",
      billing_unit |-> <<22>>,
      billed_annually |-> Flat(1), billed_month_to_month |-> Flat(1),
      on_demand |-> Flat(1)],
     [id |-> "l2", product |-> <<18>>, plan |-> "All",
      billing_unit |-> <<21, 107>>,
      billed_annually |-> Flat(1), billed_month_to_month |-> Flat(2),
      on_demand |-> Flat(2)],
     [id |-> "l3", product |-> <<18>>, plan |-> "All",
      billing_unit |-> <<21, 115>>,
      billed_annually |-> Flat(2), billed_month_to_month |-> Flat(3),
      on_demand |-> Flat(3)],
     [id |-> "l4", product |-> <<11, 6>>, plan |-> "All",
      billing_unit |-> <<21>>,
      billed_annually |-> Flat(1), billed_month_to_month |-> Flat(1),
      on_demand |-> Flat(1)],
     [id |-> "l5", product |-> <<11, 9>>, plan |-> "All",
      billing_unit |-> <<21>>,
      billed_annually |-> Flat(1), billed_month_to_month |-> Flat(1),
      on_demand |-> Flat(1)],
     [id |-> "l6", product |-> <<13, 16>>, plan |-> "All",
      billing_unit |-> <<22>>,
      billed_annually |-> Flat(1), billed_month_to_month |-> Flat(1),
      on_demand |-> Flat(1)] >>

\* bind:value of the inputs, on:click of the options, bind:checked.  The
\* values typed are in tenths: -1, nothing or 0, 0.5 or 1.5, and 100; the
\* min attributes do not keep any of them out.  The percentages are the
\* presets and the ends of the range input.
typeIngestedLogsGB ==
  /\ \E v \in {-10, 0, 5, 1000} \ {estimator.ingestedLogsGB} :
       estimator' = [estimator EXCEPT !.ingestedLogsGB = v]
  /\ handed' = <<>>
  /\ UNCHANGED <<lines, allotments, selectedPlan, loadVars, editVars, urlParam,
                 mountPc, viewVars, saveVars, sharedVars>>
typeAvgLogSizeKB ==
  /\ \E v \in {-10, 0, 20} \ {estimator.avgLogSizeKB} :
       estimator' = [estimator EXCEPT !.avgLogSizeKB = v]
  /\ handed' = <<>>
  /\ UNCHANGED <<lines, allotments, selectedPlan, loadVars, editVars, urlParam,
                 mountPc, viewVars, saveVars, sharedVars>>
selectRetentionDays ==
  /\ \E d \in {3, 7, 15, 30} \ {estimator.retentionDays} :
       estimator' = [estimator EXCEPT !.retentionDays = d]
  /\ handed' = <<>>
  /\ UNCHANGED <<lines, allotments, selectedPlan, loadVars, editVars, urlParam,
                 mountPc, viewVars, saveVars, sharedVars>>
selectIndexingPercentage ==
  /\ \E pc \in {1, 15, 100} \ {estimator.indexingPercentage} :
       estimator' = [estimator EXCEPT !.indexingPercentage = pc]
  /\ handed' = <<>>
  /\ UNCHANGED <<lines, allotments, selectedPlan, loadVars, editVars, urlParam,
                 mountPc, viewVars, saveVars, sharedVars>>
toggleFlexStarter ==
  /\ estimator' = [estimator EXCEPT !.enableFlexStarter = ~@]
  /\ handed' = <<>>
  /\ UNCHANGED <<lines, allotments, selectedPlan, loadVars, editVars, urlParam,
                 mountPc, viewVars, saveVars, sharedVars>>
toggleFlexStorage ==
  /\ estimator' = [estimator EXCEPT !.enableFlexStorage = ~@]
  /\ handed' = <<>>
  /\ UNCHANGED <<lines, allotments, selectedPlan, loadVars, editVars, urlParam,
                 mountPc, viewVars, saveVars, sharedVars>>
toggleForwarding ==
  /\ estimator' = [estimator EXCEPT !.enableForwarding = ~@]
  /\ handed' = <<>>
  /\ UNCHANGED <<lines, allotments, selectedPlan, loadVars, editVars, urlParam,
                 mountPc, viewVars, saveVars, sharedVars>>
\* the amount of an extra is shown while the extra is enabled
typeFlexStarterEvents ==
  /\ estimator.enableFlexStarter
  /\ \E v \in {0, 15} \ {estimator.flexStarterEvents} :
       estimator' = [estimator EXCEPT !.flexStarterEvents = v]
  /\ handed' = <<>>
  /\ UNCHANGED <<lines, allotments, selectedPlan, loadVars, editVars, urlParam,
                 mountPc, viewVars, saveVars, sharedVars>>
typeFlexStorageEvents ==
  /\ estimator.enableFlexStorage
  /\ \E v \in {0, 15} \ {estimator.flexStorageEvents} :
       estimator' = [estimator EXCEPT !.flexStorageEvents = v]
  /\ handed' = <<>>
  /\ UNCHANGED <<lines, allotments, selectedPlan, loadVars, editVars, urlParam,
                 mountPc, viewVars, saveVars, sharedVars>>
typeForwardingGB ==
  /\ estimator.enableForwarding
  /\ \E v \in {0, 15} \ {estimator.forwardingGB} :
       estimator' = [estimator EXCEPT !.forwardingGB = v]
  /\ handed' = <<>>
  /\ UNCHANGED <<lines, allotments, selectedPlan, loadVars, editVars, urlParam,
                 mountPc, viewVars, saveVars, sharedVars>>

\* The Add to Quote button: addToQuote, which calls onAddToQuote when it has
\* collected an item.  What the callback then does is the caller's.
addToQuote ==
  /\ AddToQuoteEnabled(estimator)
  /\ handed' = IF Len(AddToQuoteItems(estimator)) > 0
               THEN <<AddToQuoteItems(estimator)>> ELSE <<>>
  /\ UNCHANGED <<lines, allotments, selectedPlan, loadVars, editVars, urlParam,
                 mountPc, viewVars, saveVars, sharedVars, estimator>>

\* The estimator over the products of 'us' and over the log products.
InitEstimator ==
  /\ EditorDeclared
  /\ products \in {SortProducts(ServedProducts("us")),
                   SortProducts(ServedLogProducts)}
  /\ metadata = "us"
  /\ loading = FALSE
  /\ urlParam = NoParam
  /\ mountPc = "done"
  /\ pending = <<>>
  /\ SharedClosed
NextEstimator ==
  \/ typeIngestedLogsGB
  \/ typeAvgLogSizeKB
  \/ selectRetentionDays
  \/ selectIndexingPercentage
  \/ toggleFlexStarter
  \/ toggleFlexStorage
  \/ toggleForwarding
  \/ typeFlexStarterEvents
  \/ typeFlexStorageEvents
  \/ typeForwardingGB
  \/ addToQuote
SpecEstimator == InitEstimator /\ [][NextEstimator]_vars

\* ==================================================================== claims
Modes == {"annually", "monthly", "on_demand"}
PriceField(product, m) ==
  CASE m = "annually" -> product.billed_annually
    [] m = "monthly" -> product.billed_month_to_month
    [] OTHER -> product.on_demand
RECURSIVE SumOver(_, _)
\* the sum of f[x] over the x of S
SumOver(S, f) ==
  IF S = {} THEN 0
  ELSE LET x == CHOOSE y \in S : TRUE IN f[x] + SumOver(S \ {x}, f)
AllotmentIdx == {i \in 1..Len(lines) : lines[i].isAllotment}
ProductIdx == {i \in 1..Len(lines) : lines[i].product # NullProduct}
PercentageIdx ==
  {i \in ProductIdx : lines[i].product.billed_annually.kind = "pct"}
FlatIdx == ProductIdx \ PercentageIdx
\* max(0, quantity - includedQuantity) for an allotment line, else quantity
Chargeable(l) ==
  IF ~l.isAllotment THEN l.quantity
  ELSE IF l.includedQuantity = Undef THEN l.quantity
  ELSE IF l.quantity > l.includedQuantity THEN l.quantity - l.includedQuantity
  ELSE 0
\* B[m]: the sum over non-percentage lines of unit price x chargeable quantity
FlatBase(m) ==
  SumOver(FlatIdx, [i \in FlatIdx |->
            ParsePrice(PriceField(lines[i].product, m)) * Chargeable(lines[i])])

\* C1: in every state and for each billing mode m, totals[m] is B[m] plus,
\* for every percentage-priced line, B[m] * percent_m / 100 (here x100), with
\* B[m] the sum over the other lines holding a product of unit price times
\* chargeable quantity; add-ons do not compound and ignore the quantity.
C1_TotalsFormula ==
  \A m \in Modes :
    totals[m] = 100 * FlatBase(m)
                + SumOver(PercentageIdx, [i \in PercentageIdx |->
                    FlatBase(m) * ParsePercentage(PriceField(lines[i].product, m))])
\* two units of a percentage-priced line next to a charged flat line
C1_Witness ==
  /\ FlatBase("annually") > 0
  /\ \E i \in PercentageIdx : lines[i].quantity = 2
  /\ totals.annually > 100 * FlatBase("annually")

\* C2: after addLine, updateLine and removeLine every allotment line has
\* quantity equal to its includedQuantity, so it is charged nothing.
C2_AllotmentQuantityIsIncluded ==
  \A i \in AllotmentIdx :
    /\ lines[i].quantity = lines[i].includedQuantity
    /\ PageChargeableQty(lines[i]) = 0

\* C3: every allotment line's includedQuantity is its rule's
\* quantity_per_parent times the current quantity of its parent line.
C3_IncludedFollowsParent ==
  \A i \in AllotmentIdx :
    \A j \in 1..Len(lines) :
      lines[j].id = lines[i].parentLineId =>
        lines[i].includedQuantity =
          lines[i].allotmentInfo.quantity_per_parent * lines[j].quantity

\* C4: the chargeable quantity of a line is max(0, quantity - includedQuantity)
\* for an allotment line and quantity otherwise, is never negative, and
\* QuoteLine computes for a line what the page's summary computes for it.
C4_ChargeableQuantity ==
  \A i \in 1..Len(lines) :
    LET l == lines[i]
        perLine == QuoteLineChargeableQuantity(l.isAllotment, l.quantity,
                                               IncludedOrZero(l))
    IN /\ PageChargeableQty(l) = Chargeable(l)
       /\ perLine = PageChargeableQty(l)
       /\ perLine >= 0
       /\ l.id \in RenderedIds =>
            QuoteLineChargeableQuantity(FALSE, l.quantity, 0) = PageChargeableQty(l)
\* an allotment line holding less than what is included
C4_Witness ==
  \E i \in AllotmentIdx :
    /\ lines[i].quantity < lines[i].includedQuantity
    /\ PageChargeableQty(lines[i]) = 0

\* C5: a non-allotment line holding product P comes with an allotment line,
\* attached to it, for every rule of P (one per allotted_product name) whose
\* allotted product resolves among the loaded products.
C5_ProductLinesHaveAllotments ==
  \A i \in ProductIdx \ AllotmentIdx :
    LET rules == ProductAllotments(allotments, lines[i].product.id)
    IN \A r \in 1..Len(rules) :
         AllottedProduct(products, rules[r]) # NullProduct =>
           \E j \in AllotmentIdx :
             /\ lines[j].parentLineId = lines[i].id
             /\ lines[j].allotmentInfo = rules[r]

\* C6: whenever no load is in flight (and the last one did not fail), the
\* products and the metadata held are those of the selected region.
C6_ProductsOfSelectedRegion ==
  (pending = <<>> /\ error = "") =>
    /\ products = SortProducts(ServedProducts(selectedRegion))
    /\ metadata = selectedRegion
\* C7: on the shared page a protected quote is sent to the editor only after
\* verifyQuotePassword answered valid in this session; attemptEdit on a
\* protected quote not yet unlocked only opens the modal; an unprotected
\* quote is sent with a null password.
C7_NavigationNeedsValidPassword ==
  /\ [](navigation.kind = "edit" /\ quote.is_protected =>
          \E i \in 1..Len(verifications) : verifications[i].answer = "valid")
  /\ [](navigation.kind = "edit" /\ ~quote.is_protected =>
          navigation.editPassword = Null /\ verifications = <<>>)
  /\ [][(attemptEdit /\ quote.is_protected /\ ~isUnlocked) =>
          (passwordModalOpen' /\ navigation' = navigation)]_vars
  /\ [][(attemptEdit /\ ~quote.is_protected) =>
          navigation' = [kind |-> "edit", quoteId |-> quote.id,
                         editPassword |-> Null, region |-> quote.region]]_vars
\* a protected quote sent to the editor after a wrong and a right password
C7_Witness ==
  /\ navigation.kind = "edit" /\ quote.is_protected
  /\ navigation.editPassword = QuotePassword
  /\ \E i \in 1..Len(verifications) : verifications[i].answer = "invalid"

\* C8: in edit mode every save calls updateQuote with the id and the password
\* of the edit data, never createQuote, and without the save modal; the mode
\* and the stored password change only by Cancel, which clears both.
C8_EditModeSaves ==
  /\ [](editingQuoteId # Null =>
          /\ urlParam.kind = "edit"
          /\ editingQuoteId = urlParam.quoteId
          /\ editQuotePassword = urlParam.password
          /\ \A i \in 1..Len(requests) : requests[i].op = "updateQuote")
  /\ [][editingQuoteId # Null =>
          /\ Len(requests') > Len(requests) =>
               /\ requests'[Len(requests')] =
                    [op |-> "updateQuote", quoteId |-> urlParam.quoteId,
                     edit_password |-> urlParam.password,
                     items |-> ShareItems(lines)]
               /\ ~saveModalOpen'
          /\ ~saveModalOpen => ~saveModalOpen'
          /\ (editingQuoteId' # editingQuoteId
               \/ editQuotePassword' # editQuotePassword) =>
               /\ editingQuoteId' = Null /\ editQuotePassword' = Null
               /\ navigation' = [kind |-> "quote", quoteId |-> editingQuoteId,
                                 editPassword |-> Null, region |-> ""]]_vars
\* edit mode still on after a save settled, the next update in flight
C8_Witness ==
  /\ editingQuoteId = "q1" /\ editQuotePassword = "pw"
  /\ saving /\ ~saveModalOpen
  /\ requests = <<[op |-> "updateQuote", quoteId |-> "q1",
                   edit_password |-> "pw", items |-> ShareItems(lines)]>>

\* C9: opened with the clone parameter, the editor never enters edit mode,
\* the loaded lines get ids no line had, and every save calls createQuote.
C9_CloneNeverUpdates ==
  /\ [](urlParam.kind = "clone" =>
          /\ editingQuoteId = Null /\ editQuotePassword = Null
          /\ \A i \in 1..Len(requests) :
               requests[i].op = "createQuote" /\ requests[i].quoteId = Null)
  /\ [][(urlParam.kind = "clone" /\ lines' # lines) =>
          /\ \A i \in 1..Len(lines') : \A j \in 1..Len(lines) :
               lines'[i].id # lines[j].id
          /\ \A i, j \in 1..Len(lines') : i # j => lines'[i].id # lines'[j].id]_vars
\* a cloned quote of two lines being saved with a password
C9_Witness ==
  /\ urlParam.kind = "clone" /\ mountPc = "done"
  /\ Len(lines) = 2 /\ lines[1].product # NullProduct
  /\ requests = <<[op |-> "createQuote", quoteId |-> Null,
                   edit_password |-> "pw", items |-> ShareItems(lines)]>>

BillingKeys == {"annual", "monthly", "ondemand"}
\* the yearly cost a column shows (hundredths)
YearlyCost(key) ==
  12 * (CASE key = "annual" -> totals.annually
          [] key = "monthly" -> totals.monthly
          [] OTHER -> totals.on_demand)
VisibleKeys ==
  {k \in BillingKeys :
     \/ k = "annual" /\ showAnnual
     \/ k = "monthly" /\ showMonthly
     \/ k = "ondemand" /\ showOnDemand}

\* C10: with two or more columns visible, bestValueOption is a visible option
\* of least yearly cost, worstValueOption one of greatest, dynamicSavings is
\* their difference and not negative, and the badge is on at most one column
\* and only when dynamicSavings > 0; otherwise both are null and it is 0.
C10_BestValue ==
  LET badges == {k \in BillingKeys : BestValueBadge(k)}
  IN IF Cardinality(VisibleKeys) >= 2
     THEN /\ bestValueOption.key \in VisibleKeys
          /\ bestValueOption.cost = YearlyCost(bestValueOption.key)
          /\ \A k \in VisibleKeys : bestValueOption.cost <= YearlyCost(k)
          /\ worstValueOption.key \in VisibleKeys
          /\ worstValueOption.cost = YearlyCost(worstValueOption.key)
          /\ \A k \in VisibleKeys : worstValueOption.cost >= YearlyCost(k)
          /\ dynamicSavings = worstValueOption.cost - bestValueOption.cost
          /\ dynamicSavings >= 0
          /\ Cardinality(badges) <= 1
          /\ badges # {} => dynamicSavings > 0
     ELSE /\ bestValueOption = NoOption
          /\ worstValueOption = NoOption
          /\ dynamicSavings = 0
          /\ badges = {}
\* three columns shown, the cheapest not the first, and the badge on it
C10_Witness ==
  /\ VisibleKeys = BillingKeys
  /\ YearlyCost("monthly") < YearlyCost("annual")
  /\ BestValueBadge("monthly")

\* C11: the products offered to the lines are exactly the loaded products
\* whose plan is the selected plan or 'All', a product without plan counting
\* as 'All', in the loaded order; switching the plan changes no line.
C11_PlanFilter ==
  /\ [](LET offered == {i \in 1..Len(products) :
                         \/ products[i].plan = selectedPlan
                         \/ products[i].plan = "All"
                         \/ products[i].plan = ""}
        IN /\ Range(FilteredProducts) = {products[i] : i \in offered}
           /\ Len(FilteredProducts) = Cardinality(offered)
           /\ \A a, b \in 1..Len(FilteredProducts) :
                a < b => \E i, j \in offered :
                           /\ i < j
                           /\ products[i] = FilteredProducts[a]
                           /\ products[j] = FilteredProducts[b])
  /\ [][selectedPlan' # selectedPlan => lines' = lines]_vars
\* Enterprise selected while a line still holds a product of the Pro plan,
\* a product without plan among those offered
C11_Witness ==
  /\ selectedPlan = "Enterprise"
  /\ \E i \in 1..Len(lines) : lines[i].product.plan = "Pro"
  /\ \E i \in 1..Len(FilteredProducts) : FilteredProducts[i].plan = ""
  /\ \A i \in 1..Len(FilteredProducts) : FilteredProducts[i].plan # "Pro"

\* C12: after loadClonedQuote the editor's selected region and its product
\* list are those of the region carried in the clone data.
C12_CloneKeepsRegion ==
  (urlParam.kind = "clone" /\ mountPc = "done") =>
    /\ selectedRegion = urlParam.region
    /\ products = SortProducts(ServedProducts(urlParam.region))

\* the lines of ls at the positions K, in order
Restrict(ls, K) ==
  [n \in 1..Cardinality(K) |->
     ls[CHOOSE i \in K : Cardinality({j \in K : j <= i}) = n]]
\* the positions removeLine(id) is to keep
KeptBy(ls, id) ==
  {i \in 1..Len(ls) :
     /\ ls[i].id # id
     /\ ~(ls[i].isAllotment /\ ls[i].parentLineId = id)}
RemoveLinePost(before, id, after) ==
  IF KeptBy(before, id) = {}
  THEN /\ Len(after) = 1
       /\ after[1].product = NullProduct
       /\ after[1].quantity = 1
       /\ ~after[1].isAllotment
  ELSE after = Restrict(before, KeptBy(before, id))

\* C13: removeLine(id) removes exactly the line id and the allotment lines
\* attached to it, keeps the others unchanged and in order, and leaves a
\* single placeholder (no product, quantity 1) where nothing would remain.
C13_RemoveLine ==
  /\ [](\A id \in RenderedIds :
          RemoveLinePost(lines, id,
            RemoveLineResult(lines, id, FreshId(UsedIds(lines) \ {id}))))
  /\ [][removeLine => \E id \in RenderedIds : RemoveLinePost(lines, id, lines')]_vars
\* a line with an allotment line attached and a later line: lines 1 and 2
\* were removed before, and removing line 3 takes its allotment line along
C13_Witness ==
  /\ Len(lines) = 3
  /\ lines[1].id = 3 /\ lines[1].product # NullProduct
  /\ lines[2].isAllotment /\ lines[2].parentLineId = 3
  /\ ~lines[3].isAllotment
  /\ KeptBy(lines, 3) = {3}

\* the rules of a product that stand for their allotted_product name (the
\* first rule of each name), as positions of allotments
RulesOf(productId) ==
  {i \in 1..Len(allotments) :
     /\ allotments[i].parent_product_id = productId
     /\ \A j \in 1..(i - 1) :
          allotments[j].parent_product_id = productId =>
            allotments[j].allotted_product # allotments[i].allotted_product}
\* the loaded products a rule resolves to: by id, else by name containment
ResolvedById(rule) ==
  {i \in 1..Len(products) : products[i].id = rule.allotted_product_id}
ResolvedByName(rule) ==
  {i \in 1..Len(products) :
     Includes(ToLowerCase(products[i].product), ToLowerCase(rule.allotted_product))}
Resolves(rule) == ResolvedById(rule) \cup ResolvedByName(rule) # {}
Resolved(rule) ==
  LET S == IF ResolvedById(rule) # {} THEN ResolvedById(rule)
           ELSE ResolvedByName(rule)
  IN products[CHOOSE i \in S : \A j \in S : i <= j]
Others(ls, id) ==
  Restrict(ls, {i \in 1..Len(ls) : ls[i].id # id /\ ls[i].parentLineId # id})
ProductChangePost(before, id, product, quantity, after) ==
  LET attached == {j \in 1..Len(after) : after[j].parentLineId = id}
      rules == {i \in RulesOf(product.id) : Resolves(allotments[i])}
  IN /\ Cardinality({j \in 1..Len(after) : after[j].id = id}) = 1
     /\ \E j \in 1..Len(after) :
          /\ after[j].id = id /\ ~after[j].isAllotment
          /\ after[j].product = product /\ after[j].quantity = quantity
     /\ Cardinality(attached) = Cardinality(rules)
     /\ \A i \in rules : \E j \in attached :
          /\ after[j].allotmentInfo = allotments[i]
          /\ after[j].isAllotment
          /\ after[j].product = Resolved(allotments[i])
          /\ after[j].quantity = allotments[i].quantity_per_parent * quantity
          /\ after[j].includedQuantity = after[j].quantity
     /\ Others(after, id) = Others(before, id)

\* C14: when updateLine changes the product of a line, the allotment lines
\* attached to it are replaced by one allotment line per distinct
\* allotted_product name of the new product's rules (the first rule of each
\* name) that resolves to a loaded product, by id first, else by name
\* containment, with quantity = includedQuantity = quantity_per_parent x the
\* line's quantity; the lines of other parents are untouched.
C14_ProductChange ==
  \A id \in RenderedIds, quantity \in Qty :
    \A product \in Range(FilteredProducts) :
      product.id # LineById(id).product.id =>
        ProductChangePost(lines, id, product, quantity,
                          UpdateLineResult(lines, id, product, quantity))
\* line 1 was given another product after line 2 was added: it stands after
\* line 2, with the allotment line of a rule resolved by name
C14_Witness ==
  /\ Len(lines) = 3
  /\ lines[1].id = 2 /\ lines[1].product # NullProduct
  /\ lines[2].id = 1 /\ lines[2].product.id = "p4" /\ lines[2].quantity = 2
  /\ lines[3].parentLineId = 1 /\ lines[3].quantity = 2
  /\ lines[3].allotmentInfo.allotted_product_id = ""

\* C15: every allotment line's parentLineId is the id of a non-allotment
\* line of the list (no orphan allotment lines).
C15_NoOrphanAllotments ==
  \A i \in AllotmentIdx :
    \E j \in 1..Len(lines) :
      /\ lines[j].id = lines[i].parentLineId
      /\ ~lines[j].isAllotment

\* C16: the line list is never empty.
C16_LinesNeverEmpty == Len(lines) >= 1

\* the ids of the non-allotment lines, in list order
NonAllotmentIds(ls) ==
  LET K == {i \in 1..Len(ls) : ~ls[i].isAllotment}
      r == Restrict(ls, K)
  IN [n \in 1..Cardinality(K) |-> r[n].id]

\* C17: updateLine keeps the sequence of ids of the non-allotment lines,
\* whatever it changes (product, quantity or both).
C17_UpdateKeepsOrder ==
  \A id \in RenderedIds, quantity \in Qty :
    \A product \in Range(FilteredProducts) \cup {LineById(id).product} :
      NonAllotmentIds(UpdateLineResult(lines, id, product, quantity))
        = NonAllotmentIds(lines)

\* the product of prods with the id of p, else the one with its name, else
\* none
SameIdElseName(prods, p) ==
  LET byId == {i \in 1..Len(prods) : prods[i].id = p.id}
      byName == {i \in 1..Len(prods) : prods[i].product = p.product}
      S == IF byId # {} THEN byId ELSE byName
  IN IF p = NullProduct \/ S = {} THEN NullProduct
     ELSE prods[CHOOSE i \in S : \A j \in S : i <= j]
\* `after` is the snapshot with each product matched again in prods
RestorePost(snap, prods, after) ==
  /\ Len(after) = Len(snap)
  /\ \A k \in 1..Len(snap) :
       /\ after[k].id = snap[k].id
       /\ after[k].quantity = snap[k].quantity
       /\ after[k].isAllotment = snap[k].isAllotment
       /\ after[k].parentLineId = snap[k].parentLineId
       /\ after[k].allotmentInfo = snap[k].allotmentInfo
       /\ after[k].includedQuantity = snap[k].includedQuantity
       /\ after[k].product = SameIdElseName(prods, snap[k].product)

Nth(K, n) == CHOOSE i \in K : Cardinality({j \in K : j <= i}) = n
\* `items` is the payload the claim describes for the lines ls
PayloadPost(ls, items) ==
  LET parents == {i \in 1..Len(ls) :
                    ~ls[i].isAllotment /\ ls[i].product # NullProduct}
  IN /\ Len(items) = Cardinality(parents)
     /\ \A n \in 1..Len(items) :
          LET l == ls[Nth(parents, n)]
              attached == {j \in 1..Len(ls) :
                             ls[j].isAllotment /\ ls[j].parentLineId = l.id}
          IN /\ items[n].id = l.product.id
             /\ items[n].product = l.product.product
             /\ items[n].quantity = l.quantity
             /\ Len(items[n].allotments) = Cardinality(attached)
             /\ \A m \in 1..Cardinality(attached) :
                  LET al == ls[Nth(attached, m)]
                  IN /\ items[n].allotments[m].id = al.product.id
                     /\ items[n].allotments[m].allotted_product = al.product.product
                     /\ items[n].allotments[m].quantity_included = al.includedQuantity

\* C19: the payload of handleShare holds one item per non-allotment line
\* with a product, in line order, with the product's id and name and the
\* line's quantity, and each item lists exactly the allotment lines attached
\* to its line; no placeholder and no allotment line is a top-level item.
C19_SharePayload ==
  /\ [](PayloadPost(lines, ShareItems(lines)))
  /\ [][Len(requests') > Len(requests) =>
          PayloadPost(lines, requests'[Len(requests')].items)]_vars
\* a save in flight for two product lines, one of them with an allotment
\* line: three lines, two items
C19_Witness ==
  /\ Len(requests) = 1 /\ saving
  /\ Len(lines) = 3
  /\ Len(requests[1].items) = 2
  /\ \E n \in 1..2 : Len(requests[1].items[n].allotments) = 1

\* C20: no request is issued for an invalid save: openSaveModal with no line
\* holding a product sets the error, opens no modal and saves nothing;
\* handleShare for a new quote whose password is not empty and differs from
\* its confirmation sets passwordError and leaves saving and the requests.
C20_InvalidSaveSendsNothing ==
  /\ [][(openSaveModal /\ Len(ValidLines(lines)) = 0) =>
          /\ error' = "no_products"
          /\ ~saveModalOpen'
          /\ saving' = saving /\ requests' = requests]_vars
  /\ []((editingQuoteId = Null /\ editPassword # ""
           /\ editPassword # confirmPassword) =>
          /\ HandleShareResult.passwordError # ""
          /\ HandleShareResult.saving = saving
          /\ HandleShareResult.requests = requests)
  /\ [][Len(requests') > Len(requests) =>
          /\ Len(ValidLines(lines)) > 0
          /\ \/ editingQuoteId # Null
             \/ editPassword = ""
             \/ editPassword = confirmPassword]_vars
\* Save was refused for want of a product, then a product was picked, the
\* modal opened and a password typed without its confirmation
C20_Witness ==
  /\ error = "no_products"
  /\ saveModalOpen /\ ~saving /\ requests = <<>>
  /\ editPassword = "pw" /\ confirmPassword = ""

\* C21: at most one createQuote / updateQuote request is in flight: saving
\* is true while a request is unsettled, the share-menu button and the Save
\* button of the modal act only while saving is false, and the settling of
\* a request resets saving, closing the modal on success and setting the
\* error on failure.
C21_OneSaveInFlight ==
  /\ [](Len(requests) <= 1)
  /\ [](Len(requests) = 1 => saving)
  /\ [][(openSaveModal \/ handleShare) => ~saving]_vars
  /\ [][Len(requests') > Len(requests) => ~saving /\ saving']_vars
  /\ [][Len(requests') < Len(requests) =>
          /\ ~saving'
          /\ \/ error' = "save_failed" /\ saveModalOpen' = saveModalOpen
             \/ error' = error /\ ~saveModalOpen']_vars
\* a create request has failed: the modal is still open with the error
\* shown, and saving is false again
C21_Witness ==
  /\ error = "save_failed" /\ ~saving /\ requests = <<>>
  /\ saveModalOpen /\ editingQuoteId = Null
  /\ ~ShareThrows(lines)

\* the five amounts of the estimator with their products, and whether each
\* is asked for
Amounts ==
  << [asked |-> TRUE, product |-> ingestionProduct,
      amount |-> Quotient(estimator.ingestedLogsGB, 10)],
     [asked |-> TRUE, product |-> IndexedProduct(estimator.retentionDays),
      amount |-> IndexedLogsInMillions(estimator)],
     [asked |-> estimator.enableFlexStarter, product |-> flexStarterProduct,
      amount |-> Quotient(estimator.flexStarterEvents, 10)],
     [asked |-> estimator.enableFlexStorage, product |-> flexStorageProduct,
      amount |-> Quotient(estimator.flexStorageEvents, 10)],
     [asked |-> estimator.enableForwarding, product |-> forwardingProduct,
      amount |-> Quotient(estimator.forwardingGB, 10)] >>
Qualifying ==
  {i \in 1..5 : /\ Amounts[i].asked
                /\ Amounts[i].product # NullProduct
                /\ GreaterThanZero(Amounts[i].amount)}
\* q is the least integer that is not below the positive x
RoundedUp(q, x) ==
  /\ q.finite
  /\ \/ x.den > 0 /\ q.n * x.den >= x.num /\ (q.n - 1) * x.den < x.num
     \/ x.den < 0 /\ q.n * x.den <= x.num /\ (q.n - 1) * x.den > x.num
\* the items are those of the qualifying amounts, each quantity an integer
ItemsPost(items, mustBeInteger) ==
  /\ Len(items) = Cardinality(Qualifying)
  /\ \A i \in Qualifying :
       \E n \in 1..Len(items) :
         /\ items[n].product = Amounts[i].product
         /\ \/ RoundedUp(items[n].quantity, Amounts[i].amount)
            \/ ~mustBeInteger /\ ~items[n].quantity.finite
                 /\ Amounts[i].amount.den = 0

\* C22: addToQuote hands to onAddToQuote exactly the items of the amounts
\* that qualify (product found, amount > 0, and for an extra its checkbox
\* ticked), each with the amount rounded up to an integer, and does not
\* call it when none qualifies.
C22_AddToQuoteItems ==
  [][addToQuote =>
       IF Qualifying = {} THEN handed' = <<>>
       ELSE Len(handed') = 1 /\ ItemsPost(handed'[1], TRUE)]_vars
\* What holds of every call: the same, each quantity being the rounded-up
\* amount or, for an amount divided by an average log size of 0, Infinity.
C22_FiniteOrInfinity ==
  [][addToQuote =>
       IF Qualifying = {} THEN handed' = <<>>
       ELSE Len(handed') = 1 /\ ItemsPost(handed'[1], FALSE)]_vars

\* the permutations of 1..n
Orders(n) ==
  {f \in [1..n -> 1..n] : \A i, j \in 1..n : f[i] = f[j] => i = j}
Permuted(ls, f) == [i \in 1..Len(ls) |-> ls[f[i]]]

====
